---- MODULE Spec2Model ----
(***************************************************************************)
(* Job State Manager (app/job_manager.py, app/app.py).                     *)
(*                                                                         *)
(* The state is the Redis keyspace the JobManager uses: one hash           *)
(* "job:<id>" per job and the set "active_jobs".  Every Redis command is   *)
(* one atomic step; a handler is the sequence of its commands, and the     *)
(* work a handler does between two commands (comparisons, the metric and   *)
(* notification sinks, the return) belongs to the step of the command it   *)
(* follows.  Flask serves requests on threads, so steps of different       *)
(* requests interleave (SpecConc); Spec runs one request at a time.        *)
(***************************************************************************)
EXTENDS Integers, FiniteSets, Sequences, TLC

\* ---- configuration (job_manager.py lines 8-10, defaults) ----
THRESHOLD_TIMEOUT == 300
MAX_RETRIES == 3
PROGRESS_THRESHOLD == 10

\* The stuck check compares against the global THRESHOLD_TIME (line 131),
\* a name no module defines: evaluating it raises NameError.
THRESHOLD_TIME_defined == FALSE

\* ---- bounds of the model ----
MaxTime == 400
TickSteps == {400}
ProgressValues == {3, 15}
JobIds == {"a", "b"}
ConcIds == {"a"}
Threads == {"t1", "t2"}
SeqThreads == {"t1"}
MaxIdLen == 2

NoId == "-"
EmptyHash == [f \in {} |-> 0]
Fields == {"status", "progress", "last_progress", "retries", "start_time"}

VARIABLES
    jobs,         \* the hashes job:<id>: a function from the ids that have a key
    active_jobs,  \* the Redis set active_jobs
    now,          \* time.time()
    pc,           \* per request thread: "idle" or the next store command
    op,           \* the handler the thread runs (or ran last)
    job_id,       \* its job_id argument
    progress,     \* its progress argument (update_progress)
    job_data,     \* its local job_data / status / job (the last hgetall)
    retries,      \* its local retries (retry_job)
    all_jobs,     \* its local all_jobs still to visit (check_stuck_jobs)
    sweep_start,  \* the time its check_stuck_jobs pass was invoked (0 otherwise)
    result,       \* the "status" of the response it returned ("none" while running)
    emitted       \* sink calls of its current request: metric label, notifications

vars == <<jobs, active_jobs, now, pc, op, job_id, progress, job_data,
          retries, all_jobs, sweep_start, result, emitted>>
store == <<jobs, active_jobs>>

NoEmit == [metric |-> "none", slack |-> 0]

\* ---- Redis commands ----
\* variants: the existence test made on the active set; no existence test
existsInActiveSet(id) == id \in active_jobs
existsUnchecked(id) == TRUE
exists(id) == id \in DOMAIN jobs
sismember(id) == id \in active_jobs
hgetall(id) == IF id \in DOMAIN jobs THEN jobs[id] ELSE EmptyHash
keys == DOMAIN jobs

\* HMSET key field value ...: creates the hash when missing, overwrites the
\* given fields and keeps the others.
hmset(id, fields) ==
    LET old == hgetall(id)
        new == [f \in (DOMAIN old) \cup (DOMAIN fields) |->
                   IF f \in DOMAIN fields THEN fields[f] ELSE old[f]]
    IN  [k \in (DOMAIN jobs) \cup {id} |-> IF k = id THEN new ELSE jobs[k]]

\* ---- sinks ----
increment_metric(t, label) == [emitted[t] EXCEPT !.metric = label]
\* variant: the notification is not sent
NotificationNotSent(e) == e
send_slack_notification(e) == [e EXCEPT !.slack = @ + 1]

\* ---- a thread leaves its handler with a response ----
Return(t, o, id, res, data, em) ==
    /\ pc' = [pc EXCEPT ![t] = "idle"]
    /\ op' = [op EXCEPT ![t] = o]
    /\ job_id' = [job_id EXCEPT ![t] = id]
    /\ progress' = [progress EXCEPT ![t] = 0]
    /\ job_data' = [job_data EXCEPT ![t] = data]
    /\ retries' = [retries EXCEPT ![t] = 0]
    /\ all_jobs' = [all_jobs EXCEPT ![t] = {}]
    /\ sweep_start' = [sweep_start EXCEPT ![t] =
                          IF o = "check_stuck_jobs" /\ op[t] = o /\ pc[t] # "idle"
                          THEN @ ELSE IF o = "check_stuck_jobs" THEN now ELSE 0]
    /\ result' = [result EXCEPT ![t] = res]
    /\ emitted' = [emitted EXCEPT ![t] = em]

\* a thread enters handler o (its first command done) and goes on to label l
Enter(t, o, id, p, l) ==
    /\ pc' = [pc EXCEPT ![t] = l]
    /\ op' = [op EXCEPT ![t] = o]
    /\ job_id' = [job_id EXCEPT ![t] = id]
    /\ progress' = [progress EXCEPT ![t] = p]
    /\ job_data' = [job_data EXCEPT ![t] = EmptyHash]
    /\ retries' = [retries EXCEPT ![t] = 0]
    /\ all_jobs' = [all_jobs EXCEPT ![t] = {}]
    /\ sweep_start' = [sweep_start EXCEPT ![t] = 0]
    /\ result' = [result EXCEPT ![t] = "none"]
    /\ emitted' = [emitted EXCEPT ![t] = NoEmit]

Goto(t, l) ==
    /\ pc' = [pc EXCEPT ![t] = l]
    /\ UNCHANGED <<op, job_id, progress, job_data, retries, all_jobs, sweep_start,
                   result, emitted>>

Init ==
    /\ jobs = EmptyHash
    /\ active_jobs = {}
    /\ now = 0
    /\ pc = [t \in Threads |-> "idle"]
    /\ op = [t \in Threads |-> "none"]
    /\ job_id = [t \in Threads |-> NoId]
    /\ progress = [t \in Threads |-> 0]
    /\ job_data = [t \in Threads |-> EmptyHash]
    /\ retries = [t \in Threads |-> 0]
    /\ all_jobs = [t \in Threads |-> {}]
    /\ sweep_start = [t \in Threads |-> 0]
    /\ result = [t \in Threads |-> "none"]
    /\ emitted = [t \in Threads |-> NoEmit]

\* time passes
Tick ==
    /\ \E d \in TickSteps : now + d <= MaxTime /\ now' = now + d
    /\ UNCHANGED <<jobs, active_jobs, pc, op, job_id, progress, job_data,
                   retries, all_jobs, sweep_start, result, emitted>>

\* ---- start_job (lines 27-43) ----
\* variant: a start leaves the retries count of an earlier record alone
NewJobKeepsRetries(tnow) == [status |-> "Running", progress |-> 0, last_progress |-> 0, start_time |-> tnow]
NewJob(tnow) == [status |-> "Running", progress |-> 0, last_progress |-> 0, retries |-> 0, start_time |-> tnow]

\* variant: only a Running job counts as a duplicate
IsDuplicateOnlyRunning(id) ==
    sismember(id) /\ id \in DOMAIN jobs /\ jobs[id].status = "Running"
\* line 31: the id counts as a duplicate when it is in active_jobs
IsDuplicate(id) == sismember(id)

start_job_sismember(t, ids) ==
    /\ pc[t] = "idle"
    /\ \E id \in ids :
        IF IsDuplicate(id)
        THEN Return(t, "start_job", id, "Duplicate Job ID", EmptyHash, NoEmit)
        ELSE Enter(t, "start_job", id, 0, "start_sadd")
    /\ UNCHANGED <<jobs, active_jobs, now>>

start_job_sadd(t) ==
    /\ pc[t] = "start_sadd"
    /\ active_jobs' = active_jobs \cup {job_id[t]}
    /\ Goto(t, "start_hmset")
    /\ UNCHANGED <<jobs, now>>

start_job_hmset(t) ==
    /\ pc[t] = "start_hmset"
    /\ jobs' = hmset(job_id[t], NewJob(now))
    /\ Return(t, "start_job", job_id[t], "Accepted", EmptyHash,
              increment_metric(t, "Running"))
    /\ UNCHANGED <<active_jobs, now>>

\* ---- get_job_status (lines 45-54) ----
get_job_status_exists(t, ids) ==
    /\ pc[t] = "idle"
    /\ \E id \in ids :
        IF ~exists(id)
        THEN Return(t, "get_job_status", id, "Not Found", EmptyHash, NoEmit)
        ELSE Enter(t, "get_job_status", id, 0, "status_hgetall")
    /\ UNCHANGED <<jobs, active_jobs, now>>

get_job_status_hgetall(t) ==
    /\ pc[t] = "status_hgetall"
    /\ LET status == hgetall(job_id[t])
       IN  Return(t, "get_job_status", job_id[t],
                  IF "status" \in DOMAIN status THEN status.status ELSE "KeyError",
                  status, NoEmit)
    /\ UNCHANGED <<jobs, active_jobs, now>>

\* ---- update_progress (lines 56-71) ----
\* variant: a Retrying job takes progress like a Running one
NotRunningNorRetrying(job) == job.status \notin {"Running", "Retrying"}
NotRunning(job) == job.status # "Running"

update_progress_exists(t, ids) ==
    /\ pc[t] = "idle"
    /\ \E id \in ids, p \in ProgressValues :
        IF ~exists(id)
        THEN Return(t, "update_progress", id, "Not Found", EmptyHash, NoEmit)
        ELSE Enter(t, "update_progress", id, p, "update_hgetall")
    /\ UNCHANGED <<jobs, active_jobs, now>>

update_progress_hgetall(t) ==
    /\ pc[t] = "update_hgetall"
    /\ IF "status" \notin DOMAIN hgetall(job_id[t])
       THEN Return(t, "update_progress", job_id[t], "KeyError", EmptyHash, NoEmit)
       ELSE IF NotRunning(hgetall(job_id[t]))
       THEN Return(t, "update_progress", job_id[t], "Not Running", EmptyHash, NoEmit)
       ELSE /\ job_data' = [job_data EXCEPT ![t] = hgetall(job_id[t])]
            /\ pc' = [pc EXCEPT ![t] = "update_hmset"]
            /\ UNCHANGED <<op, job_id, progress, retries, all_jobs, sweep_start,
                           result, emitted>>
    /\ UNCHANGED <<jobs, active_jobs, now>>

update_progress_hmset(t) ==
    /\ pc[t] = "update_hmset"
    /\ IF "progress" \notin DOMAIN job_data[t]
       THEN /\ Return(t, "update_progress", job_id[t], "KeyError", EmptyHash, NoEmit)
            /\ UNCHANGED jobs
       ELSE /\ jobs' = hmset(job_id[t], [progress |-> progress[t],
                                         last_progress |-> job_data[t].progress])
            /\ Return(t, "update_progress", job_id[t], "Progress Updated",
                      EmptyHash, NoEmit)
    /\ UNCHANGED <<active_jobs, now>>

\* ---- complete_job (lines 73-85) ----
CompletedFields == [status |-> "Completed"]

complete_job_exists(t, ids) ==
    /\ pc[t] = "idle"
    /\ \E id \in ids :
        IF ~exists(id)
        THEN Return(t, "complete_job", id, "Not Found", EmptyHash, NoEmit)
        ELSE Enter(t, "complete_job", id, 0, "complete_hmset")
    /\ UNCHANGED <<jobs, active_jobs, now>>

complete_job_hmset(t) ==
    /\ pc[t] = "complete_hmset"
    /\ jobs' = hmset(job_id[t], CompletedFields)
    /\ Goto(t, "complete_srem")
    /\ UNCHANGED <<active_jobs, now>>

complete_job_srem(t) ==
    /\ pc[t] = "complete_srem"
    /\ active_jobs' = active_jobs \ {job_id[t]}
    /\ Return(t, "complete_job", job_id[t], "Completed", EmptyHash,
              increment_metric(t, "Completed"))
    /\ UNCHANGED <<jobs, now>>

\* ---- check_stuck_jobs, the condition of line 131 ----
elapsed_time(job, tnow) == tnow - job.start_time
progress_diff(job) == job.progress - job.last_progress

\* "NameError" | "stuck" | "ok": `and` evaluates its left operand first, and
\* that operand reads THRESHOLD_TIME.
StuckCondition(job, tnow) ==
    IF ~THRESHOLD_TIME_defined THEN "NameError"
    ELSE IF elapsed_time(job, tnow) > THRESHOLD_TIMEOUT
            /\ progress_diff(job) < PROGRESS_THRESHOLD
         THEN "stuck" ELSE "ok"

\* the sweep goes on with the keys left, or returns after the last one
SweepOn(t, rest) ==
    IF rest = {}
    THEN Return(t, "check_stuck_jobs", NoId, "Checked for stuck jobs", EmptyHash,
                emitted[t])
    ELSE /\ all_jobs' = [all_jobs EXCEPT ![t] = rest]
         /\ job_id' = [job_id EXCEPT ![t] = NoId]
         /\ pc' = [pc EXCEPT ![t] = "sweep_hgetall"]
         /\ UNCHANGED <<op, progress, job_data, retries, sweep_start, result, emitted>>

\* ---- fail_job (lines 87-100): the /fail-job handler, and the call of line 133 ----
FailedFields == [status |-> "Failed"]

FailReturn(t, res, em) ==
    IF op[t] = "check_stuck_jobs"
    THEN /\ emitted' = [emitted EXCEPT ![t] = em]
         /\ IF all_jobs[t] = {}
            THEN /\ pc' = [pc EXCEPT ![t] = "idle"]
                 /\ result' = [result EXCEPT ![t] = "Checked for stuck jobs"]
                 /\ job_id' = [job_id EXCEPT ![t] = NoId]
            ELSE /\ pc' = [pc EXCEPT ![t] = "sweep_hgetall"]
                 /\ job_id' = [job_id EXCEPT ![t] = NoId]
                 /\ UNCHANGED result
         /\ UNCHANGED <<op, progress, job_data, retries, all_jobs, sweep_start>>
    ELSE Return(t, "fail_job", job_id[t], res, EmptyHash, em)

fail_job_exists(t, ids) ==
    /\ pc[t] \in {"idle", "fail_exists"}
    /\ IF pc[t] = "idle"
       THEN \E id \in ids :
               IF ~exists(id)
               THEN Return(t, "fail_job", id, "Not Found", EmptyHash, NoEmit)
               ELSE Enter(t, "fail_job", id, 0, "fail_hmset")
       ELSE IF ~exists(job_id[t])
            THEN FailReturn(t, "Not Found", emitted[t])
            ELSE Goto(t, "fail_hmset")
    /\ UNCHANGED <<jobs, active_jobs, now>>

fail_job_hmset(t) ==
    /\ pc[t] = "fail_hmset"
    /\ jobs' = hmset(job_id[t], FailedFields)
    /\ Goto(t, "fail_srem")
    /\ UNCHANGED <<active_jobs, now>>

fail_job_srem(t) ==
    /\ pc[t] = "fail_srem"
    /\ active_jobs' = active_jobs \ {job_id[t]}
    /\ FailReturn(t, "Failed",
                  send_slack_notification(increment_metric(t, "Failed")))
    /\ UNCHANGED <<jobs, now>>

\* ---- retry_job (lines 102-118) ----
\* variants: the cap compared one late, one early
ExceedsMaxRetriesLate(r) == r > MAX_RETRIES + 1
ExceedsMaxRetriesEarly(r) == r >= MAX_RETRIES
ExceedsMaxRetries(r) == r > MAX_RETRIES

\* variant: a retried job goes straight back to Running
RetryFieldsRunning(r) == [status |-> "Running", progress |-> 0, retries |-> r]
RetryFields(r) == [status |-> "Retrying", progress |-> 0, retries |-> r]

retry_job_exists(t, ids) ==
    /\ pc[t] = "idle"
    /\ \E id \in ids :
        IF ~exists(id)
        THEN Return(t, "retry_job", id, "Not Found", EmptyHash, NoEmit)
        ELSE Enter(t, "retry_job", id, 0, "retry_hget")
    /\ UNCHANGED <<jobs, active_jobs, now>>

retry_job_hget(t) ==
    /\ pc[t] = "retry_hget"
    /\ IF "retries" \notin DOMAIN hgetall(job_id[t])
       THEN Return(t, "retry_job", job_id[t], "TypeError", EmptyHash, NoEmit)
       ELSE LET r == hgetall(job_id[t]).retries + 1
            IN  IF ExceedsMaxRetries(r)
                THEN Return(t, "retry_job", job_id[t], "Max Retries Exceeded",
                            EmptyHash, NoEmit)
                ELSE /\ retries' = [retries EXCEPT ![t] = r]
                     /\ pc' = [pc EXCEPT ![t] = "retry_hmset"]
                     /\ UNCHANGED <<op, job_id, progress, job_data, all_jobs,
                                    sweep_start, result, emitted>>
    /\ UNCHANGED <<jobs, active_jobs, now>>

retry_job_hmset(t) ==
    /\ pc[t] = "retry_hmset"
    /\ jobs' = hmset(job_id[t], RetryFields(retries[t]))
    /\ Return(t, "retry_job", job_id[t], "Retried", EmptyHash,
              increment_metric(t, "job_retries_total"))
    /\ UNCHANGED <<active_jobs, now>>

\* ---- check_stuck_jobs (lines 120-133) ----
check_stuck_jobs_keys(t) ==
    /\ pc[t] = "idle"
    /\ IF keys = {}
       THEN Return(t, "check_stuck_jobs", NoId, "Checked for stuck jobs",
                   EmptyHash, NoEmit)
       ELSE /\ pc' = [pc EXCEPT ![t] = "sweep_hgetall"]
            /\ op' = [op EXCEPT ![t] = "check_stuck_jobs"]
            /\ job_id' = [job_id EXCEPT ![t] = NoId]
            /\ progress' = [progress EXCEPT ![t] = 0]
            /\ job_data' = [job_data EXCEPT ![t] = EmptyHash]
            /\ retries' = [retries EXCEPT ![t] = 0]
            /\ all_jobs' = [all_jobs EXCEPT ![t] = keys]
            /\ sweep_start' = [sweep_start EXCEPT ![t] = now]
            /\ result' = [result EXCEPT ![t] = "none"]
            /\ emitted' = [emitted EXCEPT ![t] = NoEmit]
    /\ UNCHANGED <<jobs, active_jobs, now>>

check_stuck_jobs_hgetall(t) ==
    /\ pc[t] = "sweep_hgetall"
    /\ \E job_key \in all_jobs[t] :
        LET job == hgetall(job_key)
            rest == all_jobs[t] \ {job_key}
            cond == IF ~(Fields \subseteq DOMAIN job) THEN "KeyError"
                    ELSE IF job.status = "Running" THEN StuckCondition(job, now)
                    ELSE "ok"
        IN  CASE cond \in {"NameError", "KeyError"} ->
                    Return(t, "check_stuck_jobs", NoId, cond, EmptyHash, emitted[t])
              [] cond = "stuck" ->
                    /\ all_jobs' = [all_jobs EXCEPT ![t] = rest]
                    /\ job_id' = [job_id EXCEPT ![t] = job_key]
                    /\ pc' = [pc EXCEPT ![t] = "fail_exists"]
                    /\ UNCHANGED <<op, progress, job_data, retries, sweep_start,
                                   result, emitted>>
              [] OTHER -> SweepOn(t, rest)
    /\ UNCHANGED <<jobs, active_jobs, now>>

\* ---- the steps of one request thread ----
Step(t, ids) ==
    \/ start_job_sismember(t, ids)
    \/ start_job_sadd(t)
    \/ start_job_hmset(t)
    \/ get_job_status_exists(t, ids)
    \/ get_job_status_hgetall(t)
    \/ update_progress_exists(t, ids)
    \/ update_progress_hgetall(t)
    \/ update_progress_hmset(t)
    \/ complete_job_exists(t, ids)
    \/ complete_job_hmset(t)
    \/ complete_job_srem(t)
    \/ fail_job_exists(t, ids)
    \/ fail_job_hmset(t)
    \/ fail_job_srem(t)
    \/ retry_job_exists(t, ids)
    \/ retry_job_hget(t)
    \/ retry_job_hmset(t)
    \/ check_stuck_jobs_keys(t)
    \/ check_stuck_jobs_hgetall(t)

\* one request at a time
Next ==
    \/ Tick
    \/ \E t \in SeqThreads : Step(t, JobIds)

Spec == Init /\ [][Next]_vars

\* concurrent requests on one job id, their commands interleaved; the
\* requests overlap within one reading of the clock
NextConc == \E t \in Threads : Step(t, ConcIds)

SpecConc == Init /\ [][NextConc]_vars

\* ---- the sinks when the call inside them fails ----
\* prometheus_metrics.py 16-26 and slack_notifications.py 9-30: the counter's
\* inc() or requests.post either goes through or raises, inside a try.
SinkOutcomes == {"ok", "raises"}

\* variant: the exception leaves the sink
ExceptionUncaught(o) == o = "raises"
\* `except Exception as e: logger.error(...)`: nothing leaves the sink
ExceptionPropagates(o) == FALSE

try_increment_metric(e, label, m) ==
    IF m = "ok" THEN [e EXCEPT !.metric = label] ELSE e
try_send_slack_notification(e, n) ==
    IF n = "ok" THEN [e EXCEPT !.slack = @ + 1] ELSE e

\* what the handler answers after a sink call with outcome m
AnswerAfter(m, res) ==
    IF ExceptionPropagates(m) THEN "Internal Server Error" ELSE res

\* the last step of the four handlers that call a sink, with a sink failing
start_job_hmset_sink_fails(t) ==
    /\ pc[t] = "start_hmset"
    /\ jobs' = hmset(job_id[t], NewJob(now))
    /\ Return(t, "start_job", job_id[t], AnswerAfter("raises", "Accepted"),
              EmptyHash, try_increment_metric(emitted[t], "Running", "raises"))
    /\ UNCHANGED <<active_jobs, now>>

complete_job_srem_sink_fails(t) ==
    /\ pc[t] = "complete_srem"
    /\ active_jobs' = active_jobs \ {job_id[t]}
    /\ Return(t, "complete_job", job_id[t], AnswerAfter("raises", "Completed"),
              EmptyHash, try_increment_metric(emitted[t], "Completed", "raises"))
    /\ UNCHANGED <<jobs, now>>

\* lines 97-98: the metric, then the notification (not reached when the
\* metric's exception leaves its sink); at least one of the two fails
fail_job_srem_sink_fails(t) ==
    /\ pc[t] = "fail_srem"
    /\ active_jobs' = active_jobs \ {job_id[t]}
    /\ \E m \in SinkOutcomes, n \in SinkOutcomes :
          /\ m = "raises" \/ n = "raises"
          /\ LET counted == try_increment_metric(emitted[t], "Failed", m)
             IN  IF ExceptionPropagates(m)
                 THEN FailReturn(t, "Internal Server Error", counted)
                 ELSE FailReturn(t, AnswerAfter(n, "Failed"),
                                 try_send_slack_notification(counted, n))
    /\ UNCHANGED <<jobs, now>>

retry_job_hmset_sink_fails(t) ==
    /\ pc[t] = "retry_hmset"
    /\ jobs' = hmset(job_id[t], RetryFields(retries[t]))
    /\ Return(t, "retry_job", job_id[t], AnswerAfter("raises", "Retried"),
              EmptyHash,
              try_increment_metric(emitted[t], "job_retries_total", "raises"))
    /\ UNCHANGED <<active_jobs, now>>

\* one request at a time on one job id, sinks that may fail
NextSink ==
    \/ Tick
    \/ \E t \in SeqThreads :
          \/ Step(t, ConcIds)
          \/ start_job_hmset_sink_fails(t)
          \/ complete_job_srem_sink_fails(t)
          \/ fail_job_srem_sink_fails(t)
          \/ retry_job_hmset_sink_fails(t)

SpecSink == Init /\ [][NextSink]_vars

\* ---- a store command raises (redis.exceptions.RedisError) ----
\* No handler and no route catches the exception: the commands before the
\* raising one have been applied, the raising one and those after it have
\* not, and Flask answers 500. With one request at a time the commands of
\* the aborted call are one step; c is the command that raises.
StartCommands == {"sismember", "sadd", "hmset"}
EndCommands == {"exists", "hmset", "srem"}
RetryCommands == {"exists", "hget", "hmset"}
UpdateCommands == {"exists", "hgetall", "hmset"}

start_job_raises(t, ids) ==
    /\ pc[t] = "idle"
    /\ \E id \in ids, c \in StartCommands :
          /\ c # "sismember" => ~IsDuplicate(id)
          /\ active_jobs' = IF c = "hmset" THEN active_jobs \cup {id}
                                           ELSE active_jobs
          /\ Return(t, "start_job", id, "Internal Server Error", EmptyHash, NoEmit)
    /\ UNCHANGED <<jobs, now>>

complete_job_raises(t, ids) ==
    /\ pc[t] = "idle"
    /\ \E id \in ids, c \in EndCommands :
          /\ c # "exists" => exists(id)
          /\ jobs' = IF c = "srem" THEN hmset(id, CompletedFields) ELSE jobs
          /\ Return(t, "complete_job", id, "Internal Server Error", EmptyHash,
                    NoEmit)
    /\ UNCHANGED <<active_jobs, now>>

fail_job_raises(t, ids) ==
    /\ pc[t] = "idle"
    /\ \E id \in ids, c \in EndCommands :
          /\ c # "exists" => exists(id)
          /\ jobs' = IF c = "srem" THEN hmset(id, FailedFields) ELSE jobs
          /\ Return(t, "fail_job", id, "Internal Server Error", EmptyHash, NoEmit)
    /\ UNCHANGED <<active_jobs, now>>

\* retry_job and update_progress have one write, their last command
retry_job_raises(t, ids) ==
    /\ pc[t] = "idle"
    /\ \E id \in ids, c \in RetryCommands :
          /\ c # "exists" => exists(id)
          /\ c = "hmset" => ~ExceedsMaxRetries(hgetall(id).retries + 1)
          /\ Return(t, "retry_job", id, "Internal Server Error", EmptyHash, NoEmit)
    /\ UNCHANGED <<jobs, active_jobs, now>>

update_progress_raises(t, ids) ==
    /\ pc[t] = "idle"
    /\ \E id \in ids, c \in UpdateCommands :
          /\ c # "exists" => exists(id)
          /\ c = "hmset" => ~NotRunning(hgetall(id))
          /\ Return(t, "update_progress", id, "Internal Server Error", EmptyHash,
                    NoEmit)
    /\ UNCHANGED <<jobs, active_jobs, now>>

\* one request at a time on one job id, a store whose commands may raise
NextStore ==
    \/ Tick
    \/ \E t \in SeqThreads :
          \/ Step(t, ConcIds)
          \/ start_job_raises(t, ConcIds)
          \/ complete_job_raises(t, ConcIds)
          \/ fail_job_raises(t, ConcIds)
          \/ retry_job_raises(t, ConcIds)
          \/ update_progress_raises(t, ConcIds)

SpecStore == Init /\ [][NextStore]_vars

\* ---- is_valid_job_id (lines 17-25) and the /start-job route (app.py 28-46) ----
\* A request body's job_id is a string: a sequence of characters, one
\* representative per class the pattern tells apart.
Alphabet == {"a", "7", "-", "_", "\n"}
RawIds == UNION {[1..n -> Alphabet] : n \in 0..MaxIdLen}

\* the class [a-zA-Z0-9\-]
IdChars == {"a", "7", "-"}

\* `$` (no MULTILINE flag) matches at the end of the string and also just
\* before a newline that is the last character; k characters are consumed.
DollarMatchesAt(s, k) ==
    \/ k = Len(s)
    \/ k = Len(s) - 1 /\ s[Len(s)] = "\n"

\* re.match(r"^[a-zA-Z0-9\-]+$", job_id): one or more class characters from
\* the start, then `$`
is_valid_job_id(s) ==
    \E k \in 1..Len(s) :
        /\ \A i \in 1..k : s[i] \in IdChars
        /\ DollarMatchesAt(s, k)

\* the route validates the id, then calls JobManager.start_job
http_start_job(t) ==
    /\ pc[t] = "idle"
    /\ IF ~is_valid_job_id(job_id[t])
       THEN Return(t, "start_job", job_id[t], "Invalid Job ID", EmptyHash, NoEmit)
       ELSE IF IsDuplicate(job_id[t])
       THEN Return(t, "start_job", job_id[t], "Duplicate Job ID", EmptyHash, NoEmit)
       ELSE Enter(t, "start_job", job_id[t], 0, "start_sadd")
    /\ UNCHANGED <<jobs, active_jobs, now>>

\* /start-job requests whose job_id is any short string: each thread sends
\* (and may send again) the body it holds
InitHttp ==
    /\ jobs = EmptyHash
    /\ active_jobs = {}
    /\ now = 0
    /\ pc = [t \in Threads |-> "idle"]
    /\ op = [t \in Threads |-> "none"]
    /\ job_id \in [Threads -> RawIds]
    /\ progress = [t \in Threads |-> 0]
    /\ job_data = [t \in Threads |-> EmptyHash]
    /\ retries = [t \in Threads |-> 0]
    /\ all_jobs = [t \in Threads |-> {}]
    /\ sweep_start = [t \in Threads |-> 0]
    /\ result = [t \in Threads |-> "none"]
    /\ emitted = [t \in Threads |-> NoEmit]

NextHttp ==
    \E t \in Threads :
        \/ http_start_job(t)
        \/ start_job_sadd(t)
        \/ start_job_hmset(t)

SpecHttp == InitHttp /\ [][NextHttp]_vars

\* ======================================================================
\* Properties
\* ======================================================================
InFlight == {"Running", "Retrying"}
Terminal == {"Completed", "Failed"}
AllIdle == \A t \in Threads : pc[t] = "idle"

Local(u) == <<pc[u], op[u], job_id[u], progress[u], job_data[u], retries[u],
              all_jobs[u], sweep_start[u], result[u], emitted[u]>>

\* the step is a step of thread t (not time passing, not another thread)
Moved(t) ==
    /\ vars' # vars
    /\ now' = now
    /\ \A u \in Threads \ {t} : Local(u)' = Local(u)

\* with this step thread t receives the request o(id) / answers the request o(id)
Calls(t, o, id) == Moved(t) /\ pc[t] = "idle" /\ op'[t] = o /\ job_id'[t] = id
Returns(t, o, id) == Moved(t) /\ pc'[t] = "idle" /\ op'[t] = o /\ job_id'[t] = id

\* C1 (as claimed): whenever no request is in progress, an id is in the active
\* set if and only if it has a record whose status is Running or Retrying.
C1_ActiveIffInFlight ==
    AllIdle =>
        \A id \in JobIds :
            (id \in active_jobs) <=>
                (id \in DOMAIN jobs /\ jobs[id].status \in InFlight)

\* C2 (as claimed): once a record's status is Completed or Failed, no step
\* changes it to a different value.
C2_TerminalIsDurable ==
    [][\A id \in DOMAIN jobs :
          jobs[id].status \in Terminal => jobs'[id].status = jobs[id].status]_vars

\* C2 (amended): a Completed or Failed status is changed only by the record
\* write of a start (to Running), retry (to Retrying), complete (to Completed)
\* or fail (to Failed) request on that id; status queries, progress updates
\* and the stuck-job pass never change it.
C2_TerminalLeftOnlyByTransition ==
    [][\A id \in DOMAIN jobs :
          (jobs[id].status \in Terminal /\ jobs'[id].status # jobs[id].status) =>
              \E t \in Threads :
                  /\ Moved(t)
                  /\ job_id[t] = id
                  /\ <<op[t], jobs'[id].status>> \in
                        {<<"start_job", "Running">>, <<"retry_job", "Retrying">>,
                         <<"complete_job", "Completed">>, <<"fail_job", "Failed">>}]_vars

\* a retry has just taken a record out of a terminal state: it is Retrying
\* and (having been completed or failed before) outside the active set
C2_Witness ==
    \E t \in Threads :
        /\ pc[t] = "idle" /\ op[t] = "retry_job" /\ result[t] = "Retried"
        /\ jobs[job_id[t]].status = "Retrying"
        /\ job_id[t] \notin active_jobs

\* C3: under interleaved requests every record's retries field stays within
\* 0..MAX_RETRIES, and a retry that reads a count whose successor exceeds
\* MAX_RETRIES answers Max Retries Exceeded and writes nothing.
C3_RetriesInRange ==
    /\ [](\A id \in DOMAIN jobs : jobs[id].retries \in 0..MAX_RETRIES)
    /\ [][\A t \in Threads :
             (/\ Moved(t)
              /\ pc[t] = "retry_hget"
              /\ job_id[t] \in DOMAIN jobs
              /\ jobs[job_id[t]].retries + 1 > MAX_RETRIES) =>
                 (/\ pc'[t] = "idle"
                  /\ result'[t] = "Max Retries Exceeded"
                  /\ UNCHANGED store)]_vars

\* one retry was rejected at the cap while a concurrent retry on the same id
\* is between its read and its write
C3_Witness ==
    \E t, u \in Threads :
        /\ t # u
        /\ pc[t] = "idle" /\ op[t] = "retry_job"
        /\ result[t] = "Max Retries Exceeded"
        /\ pc[u] = "retry_hmset" /\ job_id[u] = job_id[t]
        /\ jobs[job_id[t]].retries = MAX_RETRIES

\* C4 (as claimed): two start requests for one id are never both between
\* having seen the id absent from the active set and having finished
\* inserting it.
C4_NoDoubleInsert ==
    \A t, u \in Threads :
        (t # u /\ op[t] = "start_job" /\ op[u] = "start_job"
         /\ job_id[t] = job_id[u]) =>
            ~(pc[t] \in {"start_sadd", "start_hmset"}
              /\ pc[u] \in {"start_sadd", "start_hmset"})

\* C5: a start request for an id that is in the active set answers Duplicate
\* Job ID at once and changes neither a record nor the active set.
C5_DuplicateStartNoMutation ==
    [][\A t \in Threads, id \in JobIds :
          (Calls(t, "start_job", id) /\ id \in active_jobs) =>
              (/\ pc'[t] = "idle"
               /\ result'[t] = "Duplicate Job ID"
               /\ UNCHANGED store)]_vars

\* a duplicate start was answered for a job that had been updated and retried
C5_Witness ==
    \E t \in Threads :
        /\ pc[t] = "idle" /\ op[t] = "start_job"
        /\ result[t] = "Duplicate Job ID"
        /\ job_id[t] \in active_jobs
        /\ jobs[job_id[t]].retries > 0
        /\ jobs[job_id[t]].last_progress > 0

\* C6: with one request at a time, no step of an update_progress request on
\* a record whose status is Retrying, Completed or Failed changes a record
\* or the active set, and the request answers Not Running.
C6_UpdateNotRunningNoMutation ==
    [][\A t \in Threads, id \in DOMAIN jobs :
          (/\ Moved(t)
           /\ op'[t] = "update_progress"
           /\ job_id'[t] = id
           /\ jobs[id].status \in {"Retrying", "Completed", "Failed"}) =>
              (/\ UNCHANGED store
               /\ pc'[t] = "idle" => result'[t] = "Not Running")]_vars

C6_Witness ==
    \E t \in Threads :
        /\ pc[t] = "idle" /\ op[t] = "update_progress"
        /\ result[t] = "Not Running"
        /\ jobs[job_id[t]].status = "Retrying"

\* C7: with one request at a time, a retry on a record answers Retried and
\* adds one to retries when retries < MAX_RETRIES, and otherwise answers Max
\* Retries Exceeded, changes nothing and finds retries = MAX_RETRIES; retries
\* is 0 in a new record and is changed by nothing but an accepted start (to 0)
\* and a Retried retry.  So after a start exactly the first MAX_RETRIES
\* retries are accepted.
C7_RetryCap ==
    [][/\ \A t \in Threads, id \in DOMAIN jobs :
             Returns(t, "retry_job", id) =>
                 IF jobs[id].retries < MAX_RETRIES
                 THEN /\ result'[t] = "Retried"
                      /\ jobs'[id].retries = jobs[id].retries + 1
                 ELSE /\ result'[t] = "Max Retries Exceeded"
                      /\ jobs[id].retries = MAX_RETRIES
                      /\ UNCHANGED store
       /\ \A id \in DOMAIN jobs :
             jobs'[id].retries # jobs[id].retries =>
                 \E t \in Threads :
                     /\ Moved(t) /\ job_id[t] = id
                     /\ \/ op[t] = "retry_job" /\ result'[t] = "Retried"
                        \/ /\ op[t] = "start_job" /\ result'[t] = "Accepted"
                           /\ jobs'[id].retries = 0
       /\ \A id \in (DOMAIN jobs') \ (DOMAIN jobs) : jobs'[id].retries = 0]_vars

\* the fourth retry: rejected with the count at MAX_RETRIES
C7_Witness ==
    \E t \in Threads :
        /\ pc[t] = "idle" /\ op[t] = "retry_job"
        /\ result[t] = "Max Retries Exceeded"
        /\ jobs[job_id[t]].retries = MAX_RETRIES
        /\ jobs[job_id[t]].status = "Retrying"

\* C8: no step removes a record; a record appears only with an accepted
\* start; a status request changes nothing and answers with the record when
\* there is one and Not Found when there is none; a complete request leaves
\* status Completed and the id outside the active set.
C8_RecordsSurvive ==
    [][/\ (DOMAIN jobs) \subseteq (DOMAIN jobs')
       /\ \A id \in (DOMAIN jobs') \ (DOMAIN jobs) :
             \E t \in Threads :
                 /\ Moved(t) /\ op[t] = "start_job" /\ job_id[t] = id
                 /\ result'[t] = "Accepted"
       /\ \A t \in Threads, id \in JobIds :
             (Moved(t) /\ op'[t] = "get_job_status" /\ job_id'[t] = id) =>
                 /\ UNCHANGED store
                 /\ pc'[t] = "idle" =>
                        IF id \in DOMAIN jobs
                        THEN /\ result'[t] = jobs[id].status
                             /\ job_data'[t] = jobs[id]
                        ELSE result'[t] = "Not Found"
       /\ \A t \in Threads, id \in DOMAIN jobs :
             Returns(t, "complete_job", id) =>
                 jobs'[id].status = "Completed" /\ id \notin active_jobs']_vars

\* a status request answered Completed for a job no longer in the active set
C8_Witness ==
    \E t \in Threads :
        /\ pc[t] = "idle" /\ op[t] = "get_job_status"
        /\ result[t] = "Completed"
        /\ job_id[t] \notin active_jobs
        /\ job_data[t] = jobs[job_id[t]]

\* the condition of section 4.4: timed out and short of progress
Stalled(job, tnow) ==
    /\ tnow - job.start_time > THRESHOLD_TIMEOUT
    /\ job.progress - job.last_progress < PROGRESS_THRESHOLD

\* C9 (as claimed): when a stuck-job pass ends, every Running job that met
\* both conditions when the pass was invoked is Failed and outside the active
\* set, and every Running job that does not meet them is still Running.
C9_SweepFailsStalled ==
    [][\A t \in Threads :
          (Moved(t) /\ op'[t] = "check_stuck_jobs" /\ pc'[t] = "idle") =>
              \A id \in DOMAIN jobs :
                  jobs[id].status = "Running" =>
                      /\ Stalled(jobs[id], sweep_start'[t]) =>
                            (jobs'[id].status = "Failed" /\ id \notin active_jobs')
                      /\ ~Stalled(jobs[id], now) =>
                            jobs'[id].status = "Running"]_vars

\* C10: a status, update_progress, fail, retry or complete request for an id
\* that has no record answers Not Found at once, changes neither a record nor
\* the active set, and calls no sink.
C10_NotFoundNoMutation ==
    [][\A t \in Threads, id \in JobIds :
          (/\ id \notin DOMAIN jobs
           /\ \E o \in {"get_job_status", "update_progress", "fail_job",
                        "retry_job", "complete_job"} : Calls(t, o, id)) =>
              (/\ pc'[t] = "idle"
               /\ result'[t] = "Not Found"
               /\ emitted'[t] = NoEmit
               /\ UNCHANGED store)]_vars

\* a fail request was answered Not Found for an id without a record, next to
\* another job that has one
C10_Witness ==
    \E t \in Threads :
        /\ pc[t] = "idle" /\ op[t] = "fail_job"
        /\ result[t] = "Not Found"
        /\ job_id[t] \notin DOMAIN jobs
        /\ jobs # EmptyHash

\* an id as section 4.1 admits it: non-empty, letters, digits and hyphens only
WellFormedId(s) == Len(s) > 0 /\ \A i \in 1..Len(s) : s[i] \in {"a", "7", "-"}

\* C11 (as claimed): a /start-job request is answered Invalid Job ID exactly
\* when its job_id is not a non-empty string of letters, digits and hyphens,
\* and only such ids ever get a record or enter the active set.
C11_ValidatorExact ==
    /\ \A id \in active_jobs \cup DOMAIN jobs : WellFormedId(id)
    /\ \A t \in Threads :
          (pc[t] = "idle" /\ op[t] = "start_job") =>
              (result[t] = "Invalid Job ID" <=> ~WellFormedId(job_id[t]))

\* C12: with one request at a time, a fail request on an existing record
\* changes nothing but the record's status (to Failed) and the id's
\* membership of the active set (removed); it answers Failed with the status
\* Failed, the id outside the active set and exactly one notification sent;
\* on a record that is already Failed and inactive it changes nothing at all
\* (n calls leave the record of one call, and send n notifications).
C12_FailIdempotent ==
    [][\A t \in Threads, id \in DOMAIN jobs :
          (Moved(t) /\ op'[t] = "fail_job" /\ job_id'[t] = id) =>
              /\ jobs' \in {jobs, [jobs EXCEPT ![id] = [@ EXCEPT !.status = "Failed"]]}
              /\ active_jobs' \in {active_jobs, active_jobs \ {id}}
              /\ (jobs[id].status = "Failed" /\ id \notin active_jobs) =>
                     UNCHANGED store
              /\ pc'[t] = "idle" =>
                     (/\ result'[t] = "Failed"
                      /\ jobs'[id].status = "Failed"
                      /\ id \notin active_jobs'
                      /\ emitted'[t].slack = 1)]_vars

\* a fail request answered on a job that had used up its retries
C12_Witness ==
    \E t \in Threads :
        /\ pc[t] = "idle" /\ op[t] = "fail_job" /\ result[t] = "Failed"
        /\ emitted[t].slack = 1
        /\ jobs[job_id[t]].status = "Failed"
        /\ jobs[job_id[t]].retries = MAX_RETRIES
        /\ job_id[t] \notin active_jobs

\* C13: with one request at a time, a start request for an id outside the
\* active set is not rejected; it adds the id to the active set, then
\* replaces whatever record the id had by status=Running, progress=0,
\* last_progress=0, retries=0, start_time=now, touches no other record and
\* answers Accepted.
C13_StartCreatesFreshRecord ==
    [][\A t \in Threads, id \in JobIds :
          /\ (Calls(t, "start_job", id) /\ id \notin active_jobs) =>
                 (pc'[t] = "start_sadd" /\ UNCHANGED store)
          /\ (Moved(t) /\ op[t] = "start_job" /\ job_id[t] = id
                 /\ pc[t] = "start_sadd") =>
                 (/\ pc'[t] = "start_hmset"
                  /\ active_jobs' = active_jobs \cup {id}
                  /\ jobs' = jobs)
          /\ (Moved(t) /\ op[t] = "start_job" /\ job_id[t] = id
                 /\ pc[t] = "start_hmset") =>
                 (/\ pc'[t] = "idle"
                  /\ result'[t] = "Accepted"
                  /\ id \in active_jobs' /\ active_jobs' = active_jobs
                  /\ DOMAIN jobs' = (DOMAIN jobs) \cup {id}
                  /\ jobs'[id] = [status |-> "Running", progress |-> 0,
                                  last_progress |-> 0, retries |-> 0,
                                  start_time |-> now']
                  /\ \A k \in (DOMAIN jobs) \ {id} : jobs'[k] = jobs[k])]_vars

\* a start is about to write its record over an earlier one: the id was
\* Failed after retries and progress, is back in the active set, and the
\* clock has moved on since that record was created
C13_Witness ==
    \E t \in Threads :
        /\ pc[t] = "start_hmset" /\ op[t] = "start_job"
        /\ job_id[t] \in active_jobs
        /\ job_id[t] \in DOMAIN jobs
        /\ jobs[job_id[t]].status = "Failed"
        /\ jobs[job_id[t]].retries > 0
        /\ jobs[job_id[t]].last_progress > 0
        /\ jobs[job_id[t]].start_time < now

\* C14 (as claimed): a retry answered Retried leaves status=Retrying,
\* progress=0, retries one higher and start_time equal to the time of the
\* retry.
C14_RetryRebaselines ==
    [][\A t \in Threads, id \in DOMAIN jobs :
          (Returns(t, "retry_job", id) /\ result'[t] = "Retried") =>
              (/\ jobs'[id].status = "Retrying"
               /\ jobs'[id].progress = 0
               /\ jobs'[id].retries = jobs[id].retries + 1
               /\ jobs'[id].start_time = now')]_vars

\* C15 (as claimed): when a stuck-job pass has run to its end, every record
\* that is Running or Retrying has last_progress = progress.
C15_SweepRefreshesBaseline ==
    [][\A t \in Threads :
          (Moved(t) /\ op'[t] = "check_stuck_jobs" /\ pc'[t] = "idle"
             /\ result'[t] = "Checked for stuck jobs") =>
              \A id \in DOMAIN jobs' :
                  jobs'[id].status \in InFlight =>
                      jobs'[id].last_progress = jobs'[id].progress]_vars

\* C16 (as claimed): a stuck-job pass ends only with the examination of the
\* last record of its key list, and it ends without an error.
C16_SweepIsolatesErrors ==
    [][\A t \in Threads :
          (Moved(t) /\ pc[t] = "sweep_hgetall" /\ pc'[t] = "idle") =>
              (/\ result'[t] = "Checked for stuck jobs"
               /\ Cardinality(all_jobs[t]) = 1)]_vars

\* C17 (as claimed): under interleaved requests, the write of an
\* update_progress that answers Progress Updated is applied to a record whose
\* status is Running at that moment.
C17_UpdateOnlyWhenRunning ==
    [][\A t \in Threads :
          (Moved(t) /\ pc[t] = "update_hmset"
             /\ result'[t] = "Progress Updated") =>
              jobs[job_id[t]].status = "Running"]_vars

\* C18 (as claimed): under interleaved requests, every retry that answers
\* Retried raises the record's retries by exactly one, so that retries
\* counts the Retried answers since the last start.
C18_NoLostRetry ==
    [][\A t \in Threads :
          (Moved(t) /\ pc[t] = "retry_hmset" /\ result'[t] = "Retried") =>
              jobs'[job_id[t]].retries = jobs[job_id[t]].retries + 1]_vars

\* C20 (as claimed): under interleaved requests, an update_progress that
\* answers Progress Updated sets progress to its argument and last_progress
\* to the progress the record held immediately before the write, and changes
\* nothing else.
C20_UpdateFrame ==
    [][\A t \in Threads :
          (Moved(t) /\ pc[t] = "update_hmset"
             /\ result'[t] = "Progress Updated") =>
              (/\ jobs' = [jobs EXCEPT ![job_id[t]] =
                              [@ EXCEPT !.progress = progress[t],
                                        !.last_progress = jobs[job_id[t]].progress]]
               /\ active_jobs' = active_jobs)]_vars

\* C19: the step of start, complete, fail and retry that calls the sinks
\* answers Accepted, Completed, Failed, Retried and leaves the record and the
\* active set that follow from the state before it, whether or not the metric
\* was counted and the notification sent.
C19_SinkFailureIsSwallowed ==
    [][\A t \in Threads :
          LET id == job_id[t] IN
          /\ (Moved(t) /\ pc[t] = "start_hmset") =>
                 (/\ result'[t] = "Accepted"
                  /\ jobs' = [k \in (DOMAIN jobs) \cup {id} |->
                                IF k = id
                                THEN [status |-> "Running", progress |-> 0,
                                      last_progress |-> 0, retries |-> 0,
                                      start_time |-> now]
                                ELSE jobs[k]]
                  /\ active_jobs' = active_jobs)
          /\ (Moved(t) /\ pc[t] = "complete_srem") =>
                 (/\ result'[t] = "Completed"
                  /\ jobs' = jobs
                  /\ active_jobs' = active_jobs \ {id})
          /\ (Moved(t) /\ pc[t] = "fail_srem" /\ op[t] = "fail_job") =>
                 (/\ result'[t] = "Failed"
                  /\ jobs' = jobs
                  /\ active_jobs' = active_jobs \ {id})
          /\ (Moved(t) /\ pc[t] = "retry_hmset") =>
                 (/\ result'[t] = "Retried"
                  /\ jobs' = [jobs EXCEPT ![id] =
                                 [@ EXCEPT !.status = "Retrying", !.progress = 0,
                                           !.retries = retries[t]]]
                  /\ active_jobs' = active_jobs)]_vars

\* a fail request has been answered Failed, the job is Failed and inactive,
\* and neither the metric was counted nor the notification sent
C19_Witness ==
    \E t \in Threads :
        /\ pc[t] = "idle" /\ op[t] = "fail_job" /\ result[t] = "Failed"
        /\ emitted[t] = NoEmit
        /\ jobs[job_id[t]].status = "Failed"
        /\ job_id[t] \notin active_jobs

\* C21 (as claimed): in every state that a request can observe, every id of
\* the active set has a record with all five fields; and no status, fail or
\* complete request is answered Not Found for an id that is in the active
\* set (for which a start would be answered Duplicate Job ID).
C21_ActiveHasFullRecord ==
    [][/\ \A id \in active_jobs' :
            id \in DOMAIN jobs' /\ DOMAIN jobs'[id] = Fields
       /\ \A t \in Threads, id \in JobIds :
            (/\ Moved(t) /\ pc'[t] = "idle" /\ job_id'[t] = id
             /\ op'[t] \in {"get_job_status", "fail_job", "complete_job"}
             /\ result'[t] = "Not Found") =>
                id \notin active_jobs]_vars

\* C22 (as claimed): a request that is aborted by a store error leaves every
\* record and the active set as they were when the request arrived.
C22_AbortedCallLeavesStore ==
    [][\A t \in Threads :
          (/\ Moved(t) /\ pc[t] = "idle" /\ pc'[t] = "idle"
           /\ result'[t] = "Internal Server Error") =>
              UNCHANGED store]_vars
====
